---- MODULE Spec2Model ----
(***************************************************************************)
(* A model of matrix.c: a square-matrix library over uint32_t.  The        *)
(* process-wide globals (g_seed, g_width, g_height, g_elements) are state  *)
(* variables, every library function is an operator translated from its    *)
(* loop, and every library call is an action.                              *)
(*                                                                         *)
(* A uint32_t is the pair <<hi, lo>> of its 16-bit halves, because the     *)
(* values of the program (up to 2^32 - 1) exceed the integers the model    *)
(* checker computes with; Add32, Sub32 and Mul32 are the C operators +, -  *)
(* and * on uint32_t, that is, arithmetic mod 2^32.  A matrix is a         *)
(* function from the C indices 0 .. n-1 to uint32_t values.                *)
(***************************************************************************)
EXTENDS Integers, Sequences, FiniteSets

VARIABLES g_seed, g_width, g_height, g_elements, heap, last, ncalls

vars == <<g_seed, g_width, g_height, g_elements, heap, last, ncalls>>

---------------------------------------------------------------------------
(* Bounds of the model.                                                    *)

\* set_dimensions is called with orders 0 .. MaxOrder
MaxOrder == 3
\* matrix_pow is called with exponents 0 .. MaxExp
MaxExp == 4
\* the whole library is followed for MaxCalls calls
MaxCalls == 4
\* the generator and random_matrix are followed for MaxRandCalls calls
MaxRandCalls == 5

---------------------------------------------------------------------------
(* uint32_t arithmetic.                                                    *)

Half == 2^16

ToU32(n) == <<n \div Half, n % Half>>

Zero == <<0, 0>>
One == <<0, 1>>
MaxU32 == <<Half - 1, Half - 1>>

Add32(x, y) ==
    LET lo == x[2] + y[2]
        hi == x[1] + y[1] + (lo \div Half)
    IN  <<hi % Half, lo % Half>>

Sub32(x, y) ==
    LET lo == x[2] - y[2]
        borrow == IF lo < 0 THEN 1 ELSE 0
        hi == x[1] - y[1] - borrow
    IN  <<hi % Half, lo % Half>>

\* the 32-bit product of two 16-bit numbers
Mul16(a, b) ==
    LET p0 == a * (b % 256)
        p1 == a * (b \div 256)
        t  == p0 + (p1 % 256) * 256
    IN  <<((p1 \div 256) + (t \div Half)) % Half, t % Half>>

Mul32(x, y) ==
    LET ll == Mul16(x[2], y[2])
        cross == Mul16(x[1], y[2])[2] + Mul16(x[2], y[1])[2]
    IN  <<(ll[1] + cross) % Half, ll[2]>>

\* TRUE of every value.  As the first conjunct of a loop test it makes the
\* model checker compute the loop's variables at every pass; without it they
\* stay unevaluated, nested in one another, until the loop ends.
Evaluated(x) == x = x

Lt32(x, y) == x[1] < y[1] \/ (x[1] = y[1] /\ x[2] < y[2])

Size(matrix) == Cardinality(DOMAIN matrix)

\* matrix[i] in C; an index outside the buffer has no defined value
Read(matrix, i) == IF i \in DOMAIN matrix THEN matrix[i] ELSE Zero

---------------------------------------------------------------------------
(* The pseudorandom generator.                                             *)

LcgMultiplier == 214013
LcgIncrement == 2531011

\* g_seed after the assignment of fast_rand
NextSeed(seed) == Add32(Mul32(ToU32(LcgMultiplier), seed), ToU32(LcgIncrement))

\* the value fast_rand returns for the new g_seed
RandValue(seed) == <<0, seed[1] % 32768>>

---------------------------------------------------------------------------
(* Matrix initialisations.                                                 *)

\* calloc(g_elements, sizeof(uint32_t)): g_elements zeros
new_matrix == [i \in 0 .. g_elements - 1 |-> Zero]

\* IdentityLoop with a fault: the 1 of row i is written in column 0
RECURSIVE IdentityLoopFirstColumn(_, _)
IdentityLoopFirstColumn(matrix, i) ==
    IF Evaluated(matrix) /\ i < g_width
    THEN IdentityLoopFirstColumn([matrix EXCEPT ![i * g_width] = One], i + 1)
    ELSE matrix

RECURSIVE IdentityLoop(_, _)
IdentityLoop(matrix, i) ==
    IF Evaluated(matrix) /\ i < g_width
    THEN IdentityLoop([matrix EXCEPT ![i * g_width + i] = One], i + 1)
    ELSE matrix

identity_matrix == IdentityLoop(new_matrix, 0)

\* the loop of random_matrix: each pass is one fast_rand, which advances the
\* generator and stores the value drawn
RECURSIVE RandomLoop(_, _, _)
RandomLoop(matrix, seed, i) ==
    IF Evaluated(matrix) /\ Evaluated(seed) /\ i < g_elements
    THEN RandomLoop([matrix EXCEPT ![i] = RandValue(NextSeed(seed))],
                    NextSeed(seed), i + 1)
    ELSE [matrix |-> matrix, seed |-> seed]

\* random_matrix with a fault: set_seed(seed) is left out
random_matrix_no_reseed(current, seed) == RandomLoop(new_matrix, current, 0)

\* random_matrix(seed), called when the generator holds `current`:
\* set_seed(seed) first, then the loop
random_matrix(current, seed) == RandomLoop(new_matrix, seed, 0)

uniform_matrix(value) == [i \in 0 .. g_elements - 1 |-> value]

RECURSIVE SequenceLoop(_, _, _, _)
SequenceLoop(matrix, current, step, i) ==
    IF Evaluated(matrix) /\ Evaluated(current) /\ i < g_elements
    THEN SequenceLoop([matrix EXCEPT ![i] = current], Add32(current, step),
                      step, i + 1)
    ELSE matrix

sequence_matrix(start, step) == SequenceLoop(new_matrix, start, step, 0)

---------------------------------------------------------------------------
(* Matrix operations.                                                      *)

cloned(matrix) == [i \in 0 .. g_elements - 1 |-> Read(matrix, i)]

reversed(matrix) ==
    [i \in 0 .. g_elements - 1 |-> Read(matrix, g_elements - 1 - i)]

\* TransposeLoop with a fault: the element is written where it was read
RECURSIVE TransposeLoopNoSwap(_, _, _, _)
TransposeLoopNoSwap(result, matrix, y, x) ==
    IF Evaluated(result) /\ y < g_height
    THEN IF x < g_width
         THEN TransposeLoopNoSwap(
                  [result EXCEPT ![y * g_width + x] = Read(matrix, y * g_width + x)],
                  matrix, y, x + 1)
         ELSE TransposeLoopNoSwap(result, matrix, y + 1, 0)
    ELSE result

RECURSIVE TransposeLoop(_, _, _, _)
TransposeLoop(result, matrix, y, x) ==
    IF Evaluated(result) /\ y < g_height
    THEN IF x < g_width
         THEN TransposeLoop(
                  [result EXCEPT ![x * g_width + y] = Read(matrix, y * g_width + x)],
                  matrix, y, x + 1)
         ELSE TransposeLoop(result, matrix, y + 1, 0)
    ELSE result

transposed(matrix) == TransposeLoop(new_matrix, matrix, 0, 0)

\* scalar_add with a fault: the loop stops one element early
scalar_add_stops_early(matrix, scalar) ==
    [c \in 0 .. g_elements - 1 |->
        IF c < g_elements - 1 THEN Add32(Read(matrix, c), scalar) ELSE Zero]

scalar_add(matrix, scalar) ==
    [c \in 0 .. g_elements - 1 |-> Add32(Read(matrix, c), scalar)]

scalar_mul(matrix, scalar) ==
    [c \in 0 .. g_elements - 1 |-> Mul32(Read(matrix, c), scalar)]

matrix_add(matrix_a, matrix_b) ==
    [c \in 0 .. g_elements - 1 |-> Add32(Read(matrix_a, c), Read(matrix_b, c))]

\* MulInner with a fault: second_column advances by 1, not by g_width
RECURSIVE MulInnerUnitStride(_, _, _, _, _, _, _)
MulInnerUnitStride(matrix_a, matrix_b, first_row, second_column, acc, reads_a, reads_b) ==
    IF Evaluated(acc) /\ second_column < g_elements
    THEN MulInnerUnitStride(matrix_a, matrix_b, first_row + 1, second_column + 1,
                  Add32(acc, Mul32(Read(matrix_a, first_row),
                                   Read(matrix_b, second_column))),
                  reads_a \cup {first_row}, reads_b \cup {second_column})
    ELSE [acc |-> acc, reads_a |-> reads_a, reads_b |-> reads_b]

\* the innermost loop of matrix_mul for one output cell: acc is result[c],
\* reads_a and reads_b are the indices read so far from the two operands
RECURSIVE MulInner(_, _, _, _, _, _, _)
MulInner(matrix_a, matrix_b, first_row, second_column, acc, reads_a, reads_b) ==
    IF Evaluated(acc) /\ second_column < g_elements
    THEN MulInner(matrix_a, matrix_b, first_row + 1, second_column + g_width,
                  Add32(acc, Mul32(Read(matrix_a, first_row),
                                   Read(matrix_b, second_column))),
                  reads_a \cup {first_row}, reads_b \cup {second_column})
    ELSE [acc |-> acc, reads_a |-> reads_a, reads_b |-> reads_b]

\* the body of the loop over c: the middle loop runs its body once (break)
MulCell(matrix_a, matrix_b, c) ==
    LET first_row == (c \div g_width) * g_width
    IN  IF first_row < g_elements
        THEN MulInner(matrix_a, matrix_b, first_row, c % g_width, Zero, {}, {})
        ELSE [acc |-> Zero, reads_a |-> {}, reads_b |-> {}]

matrix_mul(matrix_a, matrix_b) ==
    [c \in 0 .. g_elements - 1 |-> MulCell(matrix_a, matrix_b, c).acc]

\* PowLoop with a fault: the loop calls matrix_add
RECURSIVE PowLoopAdd(_, _, _, _)
PowLoopAdd(result, matrix, exponent, c) ==
    IF /\ Evaluated(result)
       /\ Lt32(ToU32(c), Sub32(ToU32(exponent), One)) /\ exponent # 0
    THEN PowLoopAdd(matrix_add(result, matrix), matrix, exponent, c + 1)
    ELSE [result |-> result, nmul |-> c]

\* the loop of matrix_pow; c < exponent - 1 compares as unsigned, so
\* exponent - 1 is computed mod 2^32
RECURSIVE PowLoop(_, _, _, _)
PowLoop(result, matrix, exponent, c) ==
    IF /\ Evaluated(result)
       /\ Lt32(ToU32(c), Sub32(ToU32(exponent), One)) /\ exponent # 0
    THEN PowLoop(matrix_mul(result, matrix), matrix, exponent, c + 1)
    ELSE [result |-> result, nmul |-> c]

\* matrix_pow_run with a fault: the exponent == 0 case is left out
matrix_pow_run_no_zero_case(matrix, exponent) ==
    PowLoop(new_matrix, matrix, exponent, 0)

\* matrix_pow with the number of matrix_mul calls it made
matrix_pow_run(matrix, exponent) ==
    LET looped == PowLoop(new_matrix, matrix, exponent, 0)
    IN  IF exponent = 0
        THEN [result |-> identity_matrix, nmul |-> looped.nmul]
        ELSE looped

matrix_pow(matrix, exponent) == matrix_pow_run(matrix, exponent).result

---------------------------------------------------------------------------
(* Computations.                                                           *)

RECURSIVE SumLoop(_, _, _)
SumLoop(matrix, c, sum_all_elements) ==
    IF Evaluated(sum_all_elements) /\ c < g_elements
    THEN SumLoop(matrix, c + 1, Add32(sum_all_elements, Read(matrix, c)))
    ELSE sum_all_elements

get_sum(matrix) == SumLoop(matrix, 0, Zero)

RECURSIVE TraceLoop(_, _, _)
TraceLoop(matrix, c, matrix_trace) ==
    IF Evaluated(matrix_trace) /\ c < g_width
    THEN TraceLoop(matrix, c + 1,
                   Add32(matrix_trace, Read(matrix, (c * g_width) + c)))
    ELSE matrix_trace

get_trace(matrix) == TraceLoop(matrix, 0, Zero)

RECURSIVE MinLoop(_, _, _)
MinLoop(matrix, c, matrix_smallest_val) ==
    IF Evaluated(matrix_smallest_val) /\ c < g_elements
    THEN MinLoop(matrix, c + 1,
                 IF Lt32(Read(matrix, c), matrix_smallest_val)
                 THEN Read(matrix, c) ELSE matrix_smallest_val)
    ELSE matrix_smallest_val

\* first is the value read at matrix[0]
get_minimum(matrix, first) == MinLoop(matrix, 0, first)

RECURSIVE MaxLoop(_, _, _)
MaxLoop(matrix, c, matrix_largest_val) ==
    IF Evaluated(matrix_largest_val) /\ c < g_elements
    THEN MaxLoop(matrix, c + 1,
                 IF Lt32(matrix_largest_val, Read(matrix, c))
                 THEN Read(matrix, c) ELSE matrix_largest_val)
    ELSE matrix_largest_val

get_maximum(matrix, first) == MaxLoop(matrix, 0, first)

RECURSIVE FrequencyLoop(_, _, _, _)
FrequencyLoop(matrix, value, c, freq_counter) ==
    IF Evaluated(freq_counter) /\ c < g_elements
    THEN FrequencyLoop(matrix, value, c + 1,
                       IF Read(matrix, c) = value
                       THEN Add32(freq_counter, One) ELSE freq_counter)
    ELSE freq_counter

get_frequency(matrix, value) == FrequencyLoop(matrix, value, 0, Zero)

---------------------------------------------------------------------------
(* The library calls.  heap holds the matrices returned so far, in order   *)
(* of allocation; last is the most recent call: its name, its arguments    *)
(* (a and b index heap), the scalar it returned and, for matrix_pow, the   *)
(* number of matrix_mul calls it made.                                     *)

Orders == 0 .. MaxOrder
Exponents == 0 .. MaxExp
Seeds == {Zero, ToU32(42)}
Scalars == {One, ToU32(5), MaxU32}
Steps == {One, MaxU32}

NoCall ==
    [op |-> "none", a |-> 0, b |-> 0, s |-> Zero, s2 |-> Zero, e |-> 0,
     ret |-> Zero, nmul |-> 0]

Globals == <<g_seed, g_width, g_height, g_elements>>

\* a matrix the caller may pass under the current dimensions: one of
\* g_elements elements (matrix.c checks nothing; a shorter buffer is read
\* out of bounds)
Usable(i) == i \in 1 .. Len(heap) /\ Size(heap[i]) = g_elements

\* the call returns a newly allocated matrix
Return(matrix, call) ==
    /\ heap' = Append(heap, matrix)
    /\ last' = call
    /\ ncalls' = ncalls + 1

\* the call returns a scalar
ReturnValue(value, call) ==
    /\ heap' = heap
    /\ last' = [call EXCEPT !.ret = value]
    /\ ncalls' = ncalls + 1

Init ==
    /\ g_seed = Zero
    /\ g_width = 0
    /\ g_height = 0
    /\ g_elements = 0
    /\ heap = <<>>
    /\ last = NoCall
    /\ ncalls = 0

FastRand ==
    /\ g_seed' = NextSeed(g_seed)
    /\ ReturnValue(RandValue(g_seed'), [NoCall EXCEPT !.op = "fast_rand"])
    /\ UNCHANGED <<g_width, g_height, g_elements>>

SetSeed(seed) ==
    /\ g_seed' = seed
    /\ ReturnValue(Zero, [NoCall EXCEPT !.op = "set_seed", !.s = seed])
    /\ UNCHANGED <<g_width, g_height, g_elements>>

SetDimensions(order) ==
    /\ g_width' = order
    /\ g_height' = order
    /\ g_elements' = g_width' * g_height'
    /\ ReturnValue(Zero, [NoCall EXCEPT !.op = "set_dimensions", !.e = order])
    /\ UNCHANGED g_seed

NewMatrix ==
    /\ Return(new_matrix, [NoCall EXCEPT !.op = "new_matrix"])
    /\ UNCHANGED Globals

IdentityMatrix ==
    /\ Return(identity_matrix, [NoCall EXCEPT !.op = "identity_matrix"])
    /\ UNCHANGED Globals

RandomMatrix(seed) ==
    LET filled == random_matrix(g_seed, seed)
    IN  /\ g_seed' = filled.seed
        /\ Return(filled.matrix,
                  [NoCall EXCEPT !.op = "random_matrix", !.s = seed])
        /\ UNCHANGED <<g_width, g_height, g_elements>>

UniformMatrix(value) ==
    /\ Return(uniform_matrix(value),
              [NoCall EXCEPT !.op = "uniform_matrix", !.s = value])
    /\ UNCHANGED Globals

SequenceMatrix(start, step) ==
    /\ Return(sequence_matrix(start, step),
              [NoCall EXCEPT !.op = "sequence_matrix", !.s = start, !.s2 = step])
    /\ UNCHANGED Globals

Cloned(i) ==
    /\ Usable(i)
    /\ Return(cloned(heap[i]), [NoCall EXCEPT !.op = "cloned", !.a = i])
    /\ UNCHANGED Globals

Reversed(i) ==
    /\ Usable(i)
    /\ Return(reversed(heap[i]), [NoCall EXCEPT !.op = "reversed", !.a = i])
    /\ UNCHANGED Globals

Transposed(i) ==
    /\ Usable(i)
    /\ Return(transposed(heap[i]), [NoCall EXCEPT !.op = "transposed", !.a = i])
    /\ UNCHANGED Globals

ScalarAdd(i, scalar) ==
    /\ Usable(i)
    /\ Return(scalar_add(heap[i], scalar),
              [NoCall EXCEPT !.op = "scalar_add", !.a = i, !.s = scalar])
    /\ UNCHANGED Globals

\* ScalarMul with a fault: the product is written into the matrix given
ScalarMulInPlace(i, scalar) ==
    /\ Usable(i)
    /\ heap' = [heap EXCEPT ![i] = scalar_mul(heap[i], scalar)]
    /\ last' = [NoCall EXCEPT !.op = "scalar_mul", !.a = i, !.s = scalar]
    /\ ncalls' = ncalls + 1
    /\ UNCHANGED Globals

ScalarMul(i, scalar) ==
    /\ Usable(i)
    /\ Return(scalar_mul(heap[i], scalar),
              [NoCall EXCEPT !.op = "scalar_mul", !.a = i, !.s = scalar])
    /\ UNCHANGED Globals

MatrixAdd(i, j) ==
    /\ Usable(i) /\ Usable(j)
    /\ Return(matrix_add(heap[i], heap[j]),
              [NoCall EXCEPT !.op = "matrix_add", !.a = i, !.b = j])
    /\ UNCHANGED Globals

MatrixMul(i, j) ==
    /\ Usable(i) /\ Usable(j)
    /\ Return(matrix_mul(heap[i], heap[j]),
              [NoCall EXCEPT !.op = "matrix_mul", !.a = i, !.b = j])
    /\ UNCHANGED Globals

MatrixPow(i, exponent) ==
    LET run == matrix_pow_run(heap[i], exponent)
    IN  /\ Usable(i)
        /\ Return(run.result,
                  [NoCall EXCEPT !.op = "matrix_pow", !.a = i, !.e = exponent,
                                 !.nmul = run.nmul])
        /\ UNCHANGED Globals

GetSum(i) ==
    /\ Usable(i)
    /\ ReturnValue(get_sum(heap[i]), [NoCall EXCEPT !.op = "get_sum", !.a = i])
    /\ UNCHANGED Globals

GetTrace(i) ==
    /\ Usable(i)
    /\ ReturnValue(get_trace(heap[i]), [NoCall EXCEPT !.op = "get_trace", !.a = i])
    /\ UNCHANGED Globals

\* matrix[0] of an empty matrix is read out of bounds: any value
FirstElement(matrix) == IF 0 \in DOMAIN matrix THEN {matrix[0]} ELSE {Zero} \cup Scalars

GetMinimum(i) ==
    /\ Usable(i)
    /\ \E first \in FirstElement(heap[i]) :
           ReturnValue(get_minimum(heap[i], first),
                       [NoCall EXCEPT !.op = "get_minimum", !.a = i])
    /\ UNCHANGED Globals

GetMaximum(i) ==
    /\ Usable(i)
    /\ \E first \in FirstElement(heap[i]) :
           ReturnValue(get_maximum(heap[i], first),
                       [NoCall EXCEPT !.op = "get_maximum", !.a = i])
    /\ UNCHANGED Globals

GetFrequency(i, value) ==
    /\ Usable(i)
    /\ ReturnValue(get_frequency(heap[i], value),
                   [NoCall EXCEPT !.op = "get_frequency", !.a = i, !.s = value])
    /\ UNCHANGED Globals

\* a call that builds a matrix from the dimensions alone
Construct(scalars, steps) ==
    \/ NewMatrix
    \/ IdentityMatrix
    \/ \E seed \in Seeds : RandomMatrix(seed)
    \/ \E value \in scalars : UniformMatrix(value)
    \/ \E start \in scalars, step \in steps : SequenceMatrix(start, step)

\* a call that builds a matrix from matrices
Operate(scalars, exponents) ==
    \/ \E i \in 1 .. Len(heap) : Cloned(i)
    \/ \E i \in 1 .. Len(heap) : Reversed(i)
    \/ \E i \in 1 .. Len(heap) : Transposed(i)
    \/ \E i \in 1 .. Len(heap), scalar \in scalars : ScalarAdd(i, scalar)
    \/ \E i \in 1 .. Len(heap), scalar \in scalars : ScalarMul(i, scalar)
    \/ \E i, j \in 1 .. Len(heap) : MatrixAdd(i, j)
    \/ \E i, j \in 1 .. Len(heap) : MatrixMul(i, j)
    \/ \E i \in 1 .. Len(heap), exponent \in exponents : MatrixPow(i, exponent)

\* a call that computes a scalar
Compute(scalars) ==
    \/ \E i \in 1 .. Len(heap) : GetSum(i)
    \/ \E i \in 1 .. Len(heap) : GetTrace(i)
    \/ \E i \in 1 .. Len(heap) : GetMinimum(i)
    \/ \E i \in 1 .. Len(heap) : GetMaximum(i)
    \/ \E i \in 1 .. Len(heap), value \in scalars : GetFrequency(i, value)

(* The library under any sequence of calls, from the state the process     *)
(* starts in.                                                              *)
Next ==
    /\ ncalls < MaxCalls
    /\ \/ FastRand
       \/ \E seed \in Seeds : SetSeed(seed)
       \/ \E order \in Orders : SetDimensions(order)
       \/ Construct({MaxU32}, {One})
       \/ Operate({MaxU32}, {0, 2})
       \/ Compute({MaxU32})

Spec == Init /\ [][Next]_vars

(* The generator under any sequence of set_seed, fast_rand, random_matrix  *)
(* and set_dimensions calls.                                               *)
NextRand ==
    /\ ncalls < MaxRandCalls
    /\ \/ FastRand
       \/ \E seed \in Seeds : SetSeed(seed)
       \/ \E order \in Orders : SetDimensions(order)
       \/ \E seed \in Seeds : RandomMatrix(seed)

SpecRand == Init /\ [][NextRand]_vars

(* One operation applied to matrices a = heap[1] and b = heap[2] of any    *)
(* order in Orders.                                                        *)
\* the matrix with a single nonzero element, at index k
Unit(k) == [new_matrix EXCEPT ![k] = ToU32(3)]

Inputs ==
    {new_matrix, identity_matrix, random_matrix(Zero, ToU32(42)).matrix,
     uniform_matrix(One), uniform_matrix(MaxU32),
     sequence_matrix(One, One), sequence_matrix(ToU32(5), One),
     sequence_matrix(MaxU32, MaxU32)}
    \cup {Unit(k) : k \in 0 .. g_elements - 1}

InitPure ==
    /\ g_seed = Zero
    /\ g_width \in Orders
    /\ g_height = g_width
    /\ g_elements = g_width * g_height
    /\ heap \in Inputs \X Inputs
    /\ last = NoCall
    /\ ncalls = 0

NextPure ==
    /\ ncalls = 0
    /\ Operate(Scalars, Exponents)

SpecPure == InitPure /\ [][NextPure]_vars

---------------------------------------------------------------------------
(* Properties.  After a call, ArgA and ArgB are the matrices it was given  *)
(* and Result is the matrix it returned.                                   *)

ArgA == heap[last.a]
ArgB == heap[last.b]
Result == heap[Len(heap)]

Indices == 0 .. g_elements - 1

\* the matrix with the given (small) elements in row-major order
Matrix(elements) == [i \in 0 .. Len(elements) - 1 |-> ToU32(elements[i + 1])]

\* 1 where row = column, 0 elsewhere
IdentitySpec ==
    [i \in Indices |-> IF i \div g_width = i % g_width THEN One ELSE Zero]

\* sum + the sum over k in [from, g_width) of a[row*N + k] * b[k*N + col],
\* mod 2^32
RECURSIVE DotSpec(_, _, _, _, _, _)
DotSpec(a, b, row, col, from, sum) ==
    IF Evaluated(sum) /\ from < g_width
    THEN DotSpec(a, b, row, col, from + 1,
                 Add32(sum, Mul32(a[row * g_width + from],
                                  b[from * g_width + col])))
    ELSE sum

ProductSpec(a, b) ==
    [i \in Indices |-> DotSpec(a, b, i \div g_width, i % g_width, 0, Zero)]

\* product x m x ... x m with e further factors m
RECURSIVE PowerSpecFrom(_, _, _)
PowerSpecFrom(product, m, e) ==
    IF Evaluated(product) /\ e > 0
    THEN PowerSpecFrom(ProductSpec(product, m), m, e - 1)
    ELSE product

\* m x m x ... x m with e >= 1 factors
PowerSpec(m, e) == PowerSpecFrom(m, m, e - 1)

\* C1: for every order N >= 1 and every N x N matrix m, matrix_pow(m, 1)
\* returns a matrix equal to m element for element.
C1_PowOneIsM ==
    (last.op = "matrix_pow" /\ last.e = 1 /\ g_width >= 1) => Result = ArgA

\* C2: for every exponent e > 1 and every matrix m, matrix_pow(m, e) returns
\* the product of e factors m (mod 2^32), after e - 1 applications of
\* matrix_mul; with order 2 and m = [1,2,3,4], matrix_pow(m, 4) is
\* [199, 290, 435, 634].
C2_PowIsProduct ==
    (last.op = "matrix_pow" /\ last.e > 1) =>
        /\ Result = PowerSpec(ArgA, last.e)
        /\ last.nmul = last.e - 1
        /\ (ArgA = Matrix(<<1, 2, 3, 4>>) /\ last.e = 4) =>
               Result = Matrix(<<199, 290, 435, 634>>)

\* C3: for every order N and every matrix m, matrix_pow(m, 0) returns the
\* identity matrix (1 where row = column, 0 elsewhere), whatever m holds,
\* and calls matrix_mul not once.
C3_PowZeroIsIdentity ==
    (last.op = "matrix_pow" /\ last.e = 0) =>
        /\ Result = IdentitySpec
        /\ last.nmul = 0

C3_Witness ==
    /\ last.op = "matrix_pow" /\ last.e = 0
    /\ g_width = 3
    /\ ArgA = sequence_matrix(MaxU32, MaxU32)
    /\ Result = Matrix(<<1, 0, 0, 0, 1, 0, 0, 0, 1>>)

\* C4: for every matrix m and every k >= 1, matrix_pow(m, k + 1) equals
\* matrix_mul(matrix_pow(m, k), m).
C4_PowSuccessor ==
    (last.op = "matrix_pow" /\ last.e >= 2) =>
        Result = matrix_mul(matrix_pow(ArgA, last.e - 1), ArgA)

C4_Witness ==
    /\ last.op = "matrix_pow" /\ last.e = 3
    /\ g_width = 2
    /\ ArgA = Matrix(<<1, 2, 3, 4>>)

\* C5: for every order N >= 0 and all N x N matrices a, b, element
\* c = row*N + col of matrix_mul(a, b) is the sum over k in [0, N) of
\* a[row*N + k] * b[k*N + col] mod 2^32, every index read from a and b lies
\* in [0, N*N), and for order 2, a = [1,2,3,4], b = [5,6,7,8] the result is
\* [19,22,43,50].
C5_MulIsProduct ==
    (last.op = "matrix_mul") =>
        /\ Result = ProductSpec(ArgA, ArgB)
        /\ \A c \in Indices :
               /\ MulCell(ArgA, ArgB, c).reads_a \subseteq Indices
               /\ MulCell(ArgA, ArgB, c).reads_b \subseteq Indices
        /\ (ArgA = Matrix(<<1, 2, 3, 4>>) /\ ArgB = Matrix(<<5, 6, 7, 8>>)) =>
               Result = Matrix(<<19, 22, 43, 50>>)

C5_Witness ==
    /\ last.op = "matrix_mul"
    /\ ArgA = Matrix(<<1, 2, 3, 4>>) /\ ArgB = Matrix(<<5, 6, 7, 8>>)
    /\ Result = Matrix(<<19, 22, 43, 50>>)
    /\ MulCell(ArgA, ArgB, 3).reads_a = {2, 3}
    /\ MulCell(ArgA, ArgB, 3).reads_b = {1, 3}

\* C6: for every order N >= 1 and every N x N matrix m,
\* matrix_mul(m, identity_matrix()) and matrix_mul(identity_matrix(), m)
\* both equal m.
C6_MulIdentity ==
    (last.op = "matrix_mul" /\ g_width >= 1) =>
        /\ ArgB = identity_matrix => Result = ArgA
        /\ ArgA = identity_matrix => Result = ArgB

C6_Witness ==
    /\ last.op = "matrix_mul" /\ g_width = 3
    /\ ArgA = sequence_matrix(ToU32(5), One)
    /\ ArgB = identity_matrix
    /\ Result = ArgA

\* the generator of the claim: the state n draws after state s
RECURSIVE DrawState(_, _)
DrawState(s, n) ==
    IF Evaluated(s) /\ n > 0
    THEN DrawState(Add32(Mul32(ToU32(214013), s), ToU32(2531011)), n - 1)
    ELSE s

\* C7: from any generator state, random_matrix(s) returns the matrix whose
\* element i is the (i+1)-th draw of the generator started at seed s, each
\* draw setting seed = (214013*seed + 2531011) mod 2^32 and returning
\* (seed >> 16) & 0x7FFF; two calls random_matrix(42) at order 3 return the
\* same 9 elements.
C7_RandomDeterministic ==
    (last.op = "random_matrix") =>
        Result = [i \in Indices |-> <<0, DrawState(last.s, i + 1)[1] % 32768>>]

C7_Witness ==
    /\ last.op = "random_matrix" /\ last.s = ToU32(42)
    /\ g_width = 3
    /\ Len(heap) = 2 /\ Size(heap[1]) = 9
    /\ heap[1] = heap[2]
    /\ heap[1][0] = ToU32(175) /\ heap[1][8] = ToU32(15809)
    /\ ncalls = 4

\* C8: for every matrix m and scalar s, get_sum(scalar_add(m, s)) equals
\* (get_sum(m) + s * element_count) mod 2^32, also when elements or the sum
\* wrap around.
C8_SumOfScalarAdd ==
    (last.op = "scalar_add") =>
        get_sum(Result) = Add32(get_sum(ArgA), Mul32(last.s, ToU32(g_elements)))

C8_Witness ==
    /\ last.op = "scalar_add" /\ last.s = ToU32(5)
    /\ g_width = 3
    /\ ArgA = uniform_matrix(MaxU32)
    /\ Result = uniform_matrix(ToU32(4))
    /\ get_sum(ArgA) = Sub32(Zero, ToU32(9))
    /\ get_sum(Result) = ToU32(36)

\* C9: for every order N and every N x N matrix m, transposed(transposed(m))
\* equals m, where transposed writes result[x*N + y] = m[y*N + x] for all
\* 0 <= x, y < N.
C9_TransposeInvolution ==
    (last.op = "transposed") =>
        /\ transposed(Result) = ArgA
        /\ \A x, y \in 0 .. g_width - 1 :
               Result[x * g_width + y] = ArgA[y * g_width + x]

C9_Witness ==
    /\ last.op = "transposed" /\ g_width = 3
    /\ ArgA = Matrix(<<1, 2, 3, 4, 5, 6, 7, 8, 9>>)
    /\ Result = Matrix(<<1, 4, 7, 2, 5, 8, 3, 6, 9>>)

Producing ==
    {"new_matrix", "identity_matrix", "random_matrix", "uniform_matrix",
     "sequence_matrix", "cloned", "reversed", "transposed", "scalar_add",
     "scalar_mul", "matrix_add", "matrix_mul", "matrix_pow"}

\* C10: no call changes a matrix that exists when it is made: a producing
\* call only adds the matrix it allocated, any other call leaves every
\* matrix alone; the generator state is changed only by set_seed, fast_rand
\* and random_matrix, and the dimensions only by set_dimensions.
C10_Frame ==
    [][/\ \A i \in 1 .. Len(heap) : i <= Len(heap') /\ heap'[i] = heap[i]
       /\ Len(heap') = Len(heap) + (IF last'.op \in Producing THEN 1 ELSE 0)
       /\ g_seed' # g_seed =>
              last'.op \in {"set_seed", "fast_rand", "random_matrix"}
       /\ <<g_width, g_height, g_elements>>' # <<g_width, g_height, g_elements>> =>
              last'.op = "set_dimensions"]_vars

C10_Witness ==
    /\ last.op = "matrix_mul" /\ last.a = 1 /\ last.b = 2
    /\ g_width = 2
    /\ heap[1] = uniform_matrix(MaxU32)
    /\ heap[2] = identity_matrix
    /\ Len(heap) = 3 /\ heap[3] = heap[1]

====
